---- MODULE Spec2Model ----
(***************************************************************************)
(* Job lifecycle of the PDF accessibility backend: the Lambda handlers     *)
(* createJob, getJob, getUserJobs, analyzePDF, startProcessing, cancelJob, *)
(* deleteJob and stepFunctionsCallback, run as concurrent invocations over *)
(* one DynamoDB jobs table, one S3 bucket and the SplitPDF Lambda.         *)
(*                                                                         *)
(* A Python string is a sequence of tokens ("/" and ".pdf" are tokens of   *)
(* their own), so that split('/') and replace('.pdf', '') are computed and *)
(* not assumed.  A missing attribute is the empty value of its type: <<>>  *)
(* for strings and lists, "" for enumerations, 0 for timestamps.           *)
(* Each action is one handler up to and including one call to DynamoDB,    *)
(* S3 or Lambda; the local code between two calls belongs to the action    *)
(* of the call that precedes it.  A number is stored as a one-element      *)
(* sequence; the table returns every number as a Decimal.  The attributes  *)
(* expires_at and user_email, which only createJob writes, are left out of *)
(* the item.                                                               *)
(***************************************************************************)
EXTENDS Integers, Sequences, FiniteSets, TLC

(* ------------------------------ bounds -------------------------------- *)
\* invocations started in one behaviour
MaxCalls == 2
\* largest clock reading
MaxClock == 2

(* ------------------------- deployment settings ------------------------ *)
PDF_BUCKET_NAME == "pdfbucket"
pdf_bucket == "pdfbucket"
split_pdf_lambda == "arn:SplitPDF"

(* ------------------------------ universe ----------------------------- *)
Procs == {1, 2}
NoStr == <<>>
alice == <<"alice">>
bob == <<"bob">>
Users == {alice, bob}
JobIds == {<<"a">>, <<"b">>}
KeyA == <<"pdf", "/", "a", ".pdf">>
KeyC == <<"pdf", "/", "c", ".pdf">>
KeyB == <<"uploads", "/", "alice", "/", "b", ".pdf">>
Keys == {KeyA, KeyB, KeyC}
ChunkC == <<"pdf", "/", "c", "_chunk_", "1", ".pdf">>
ResultA == <<"result", "/", "COMPLIANT_a.pdf">>
ReportC == <<"temp", "/", "c", "_accessibility_report.json">>
PageCounts == {5, 60}

Blob(bucket, key) == [bucket |-> bucket, key |-> key]

\* s3_response['ContentLength'] of an object: 2 MB
ContentLength == 2097152
\* the uploads and the files an earlier run of the workflow left
InitialBlobs ==
    {Blob(PDF_BUCKET_NAME, k) : k \in {KeyB, KeyC, ResultA, ReportC}}

(* --------------------------- string helpers --------------------------- *)
\* s.replace('.pdf', '')
StripPdf(s) == SelectSeq(s, LAMBDA t : t # ".pdf")

\* positions of "/" in s
Slashes(s) == {i \in 1..Len(s) : s[i] = "/"}

\* s.split('/')[-1]
LastSegment(s) ==
    IF Slashes(s) = {} THEN s
    ELSE LET m == CHOOSE i \in Slashes(s) : \A k \in Slashes(s) : k <= i
         IN SubSeq(s, m + 1, Len(s))

\* s.split('/')
RECURSIVE Split(_)
Split(s) ==
    IF Slashes(s) = {} THEN <<s>>
    ELSE LET m == CHOOSE i \in Slashes(s) : \A k \in Slashes(s) : i <= k
         IN <<SubSeq(s, 1, m - 1)>> \o Split(SubSeq(s, m + 1, Len(s)))

\* s.startswith(prefix)
StartsWith(s, prefix) ==
    /\ Len(prefix) <= Len(s)
    /\ SubSeq(s, 1, Len(prefix)) = prefix

\* a finite set of strings in one fixed order
RECURSIVE SetToSeq(_)
SetToSeq(S) ==
    IF S = {} THEN <<>>
    ELSE LET x == CHOOSE y \in S : TRUE IN <<x>> \o SetToSeq(S \ {x})

(* ------------------------------- items -------------------------------- *)
EmptyItem ==
    [user_sub |-> NoStr, status |-> "", file_name |-> NoStr, s3_key |-> NoStr,
     s3_bucket |-> "", file_size_bytes |-> <<>>, file_size_mb |-> <<>>,
     created_at |-> 0, updated_at |-> 0, metrics |-> <<>>,
     error_message |-> "", processed_s3_key |-> NoStr,
     processing_metadata |-> <<>>]

\* table.get_item: 'Item' in response
HasItem(st, job_id) == job_id \in DOMAIN st

\* an update that stores the set attributes alone, as put_item would
ReplaceItem(st, job_id, sets) ==
    (job_id :> [f \in DOMAIN EmptyItem |->
                   IF f \in DOMAIN sets THEN sets[f] ELSE EmptyItem[f]]) @@ st

\* table.update_item(Key, UpdateExpression='SET ...') without a
\* ConditionExpression: sets the attributes of the item, creating the item
\* when the key is not in the table
UpdateItem(st, job_id, sets) ==
    LET old == IF HasItem(st, job_id) THEN st[job_id] ELSE EmptyItem
        new == [f \in DOMAIN EmptyItem |->
                   IF f \in DOMAIN sets THEN sets[f] ELSE old[f]]
    IN (job_id :> new) @@ st

\* table.put_item(Item): stores the item, replacing one of the same key
PutItem(st, job_id, item) == (job_id :> item) @@ st

\* a delete_item that leaves the item in the table
KeepItem(st, job_id) == st

\* table.delete_item(Key)
DeleteItem(st, job_id) == [k \in DOMAIN st \ {job_id} |-> st[k]]

(* ----------------------------- estimator ------------------------------ *)
avg_elements_per_page == 30
quota_limit == 25000

Complexity(num_pages) ==
    IF num_pages < 10 THEN "simple"
    ELSE IF num_pages < 50 THEN "moderate"
    ELSE "complex"

\* round(x, 2) of the non-negative rational n / d, in hundredths; Python
\* rounds a tie to the even neighbour
RoundHundredths(n, d) ==
    LET q == (100 * n) \div d
        r == (100 * n) % d
    IN IF 2 * r > d \/ (2 * r = d /\ q % 2 = 1) THEN q + 1 ELSE q

\* round(file_size_bytes / (1024 * 1024), 2), in hundredths
FileSizeMb(file_size_bytes) == RoundHundredths(file_size_bytes, 1024 * 1024)

Estimate(num_pages) ==
    LET estimated_elements == num_pages * avg_elements_per_page
        estimated_transactions == estimated_elements \div 10
    IN [num_pages |-> num_pages,
        estimated_elements |-> estimated_elements,
        estimated_transactions |-> estimated_transactions,
        avg_elements_per_page |-> avg_elements_per_page,
        complexity |-> Complexity(num_pages),
        \* (estimated_transactions / quota_limit) * 100, in hundredths
        estimated_cost_percentage |->
            RoundHundredths(estimated_transactions * 100, quota_limit)]

(* ------------------------------- state -------------------------------- *)
VARIABLES
    store,    \* the jobs table: job_id -> item
    blobs,    \* the objects of the S3 bucket
    invoked,  \* job_id -> number of SplitPDF invocations accepted
    clock,    \* the latest reading of the wall clock
    calls,    \* invocations started so far
    inv,      \* per invocation slot: the locals of the handler it runs
    last      \* the request and the response of the invocation that
              \* returns in this step, if one does

vars == <<store, blobs, invoked, clock, calls, inv, last>>

NoOutput == [present |-> FALSE, results |-> <<>>]

\* the locals of stepFunctionsCallback: of the event, detail.status, the
\* cause, the job_id, the shape and the s3_key of the input, and the output
NoDetail ==
    [status |-> "", cause |-> "", job_id |-> NoStr, shape |-> "none",
     s3_key |-> NoStr, output |-> NoOutput, processed_file_key |-> NoStr]

\* a slot that runs nothing
Idle ==
    [op |-> "none", pc |-> "done", job_id |-> NoStr, user_sub |-> NoStr,
     job |-> EmptyItem, flag |-> FALSE, now |-> 0, metrics |-> <<>>,
     todo |-> <<>>,
     deleted_files |-> <<>>, s3_errors |-> <<>>, detail |-> NoDetail,
     statusCode |-> 0, body |-> [status |-> "", job |-> EmptyItem, jobs |-> <<>>]]

\* a handler starting with its request parsed
Started(op, job_id, user_sub) ==
    [Idle EXCEPT !.op = op, !.pc = "run", !.job_id = job_id, !.user_sub = user_sub]

\* return {'statusCode': code, 'body': ...}
Return(f, code, status, job) ==
    [f EXCEPT !.pc = "done", !.statusCode = code,
              !.body = [status |-> status, job |-> job, jobs |-> <<>>]]

\* the item holds a number, which the table returns as a Decimal
HasDecimal(job) ==
    job.file_size_bytes # <<>> \/ job.file_size_mb # <<>> \/ job.metrics # <<>>

\* return {'statusCode': code, 'body': json.dumps({..., 'job': job})}:
\* without a `default`, json.dumps raises TypeError on a Decimal, and the
\* handler's except branch answers 500
ReturnJob(f, code, status, job, default) ==
    IF default \/ ~HasDecimal(job) THEN Return(f, code, status, job)
    ELSE Return(f, 500, "", EmptyItem)

\* what stays of a returned invocation: its request and its response
Response(f) ==
    [f EXCEPT !.job = EmptyItem, !.now = 0, !.metrics = <<>>, !.todo = <<>>,
              !.detail = [NoDetail EXCEPT !.status = f.detail.status,
                                          !.job_id = f.detail.job_id,
                                          !.shape = f.detail.shape,
                                          !.s3_key = f.detail.s3_key,
                                          !.output = f.detail.output]]

\* slot p goes on with locals f, or has returned
Continue(p, f) ==
    IF f.pc = "done"
    THEN inv' = [inv EXCEPT ![p] = Idle] /\ last' = Response(f)
    ELSE inv' = [inv EXCEPT ![p] = f] /\ last' = Idle

\* The table as earlier invocations left it: empty, or holding job "a" as
\* createJob stored it, or as startProcessing then updated it, SplitPDF
\* having written a chunk of the upload by then.
UploadedA ==
    [EmptyItem EXCEPT !.user_sub = alice, !.status = "UPLOADED",
                      !.file_name = <<"doc", ".pdf">>, !.s3_key = KeyC,
                      !.s3_bucket = PDF_BUCKET_NAME,
                      !.file_size_bytes = <<ContentLength>>,
                      !.file_size_mb = <<FileSizeMb(ContentLength)>>,
                      !.created_at = 1, !.updated_at = 1]

ProcessingA ==
    [UploadedA EXCEPT !.status = "PROCESSING",
                      !.processing_metadata =
                          <<[s3_bucket |-> PDF_BUCKET_NAME, s3_key |-> KeyC,
                             started_at |-> 1]>>]

InitialTables ==
    {[st |-> [k \in {} |-> EmptyItem], n |-> 0, chunks |-> {}],
     [st |-> (<<"a">> :> UploadedA), n |-> 0, chunks |-> {}],
     [st |-> (<<"a">> :> ProcessingA), n |-> 1, chunks |-> {ChunkC}]}

\* as Continue, for an action that may read the clock: f.now is the reading
ContinueAt(p, f) ==
    /\ Continue(p, f)
    /\ clock' = IF f.pc = "done" \/ f.now = 0 THEN clock ELSE f.now

Init ==
    /\ \E t \in InitialTables :
          /\ store = t.st
          /\ invoked = [j \in JobIds |-> IF j = <<"a">> THEN t.n ELSE 0]
          /\ blobs = InitialBlobs
                         \cup {Blob(PDF_BUCKET_NAME, k) : k \in t.chunks}
    /\ clock = 1
    /\ calls = 0
    /\ inv = [p \in Procs |-> Idle]
    /\ last = Idle

\* the behaviour may start one more invocation, which takes the first
\* free slot
CanStart(p) ==
    /\ inv[p].pc = "done"
    /\ \A q \in Procs : inv[q].pc = "done" => p <= q
    /\ calls < MaxCalls

\* what datetime.now() may return: no less than the reading before it
Now == clock..MaxClock

(* --------------------------- caller identity -------------------------- *)
\* requestContext.authorizer.claims as the authorizer may deliver them
ClaimsSet ==
    {[sub |-> alice, username |-> NoStr], [sub |-> bob, username |-> NoStr],
     [sub |-> NoStr, username |-> bob], [sub |-> NoStr, username |-> NoStr]}

\* claims.get('sub') or claims.get('cognito:username')
UserSub(claims) == IF claims.sub # NoStr THEN claims.sub ELSE claims.username

\* claims.get('sub')
SubOnly(claims) == claims.sub


(* ------------------------------ createJob ----------------------------- *)
\* job_id.rsplit('_', 1)[0] + '.pdf'
FileNameOf(job_id) ==
    LET us == {i \in 1..Len(job_id) : job_id[i] = "_"}
    IN IF us = {} THEN job_id \o <<".pdf">>
       ELSE LET m == CHOOSE i \in us : \A k \in us : k <= i
            IN SubSeq(job_id, 1, m - 1) \o <<".pdf">>

\* job_item, with both timestamps read from the clock
JobItem(job_id, user_sub, file_name, s3_key, s3_bucket, file_size_bytes, now) ==
    [EmptyItem EXCEPT !.user_sub = user_sub, !.status = "UPLOADED",
                      !.file_name = file_name, !.s3_key = s3_key,
                      !.s3_bucket = IF s3_bucket # "" THEN s3_bucket
                                    ELSE PDF_BUCKET_NAME,
                      !.file_size_bytes = <<file_size_bytes>>,
                      !.file_size_mb = <<FileSizeMb(file_size_bytes)>>,
                      !.created_at = now, !.updated_at = now]

\* request bodies of the API Gateway branch: complete, or lacking a field
CreateBodies ==
    {[job_id |-> j, user_sub |-> u, file_name |-> <<"doc", ".pdf">>,
      s3_key |-> KeyC, s3_bucket |-> b] :
        j \in JobIds, u \in Users, b \in {"", PDF_BUCKET_NAME}}
    \cup {[job_id |-> j, user_sub |-> alice, file_name |-> <<"doc", ".pdf">>,
           s3_key |-> k, s3_bucket |-> ""] :
             j \in {NoStr, <<"a">>}, k \in {NoStr, KeyC}}

\* the API Gateway branch up to table.put_item; when head_object fails, for
\* an object that is not there, the size is body.get('file_size_bytes', 0)
CreateJobApi(p) ==
    /\ CanStart(p)
    /\ \E body \in CreateBodies, now \in Now :
          LET f == Started("create", body.job_id, body.user_sub)
              s3_bucket == IF body.s3_bucket # "" THEN body.s3_bucket
                           ELSE PDF_BUCKET_NAME
              file_size_bytes == IF Blob(s3_bucket, body.s3_key) \in blobs
                                 THEN ContentLength ELSE 0
          IN ContinueAt(p,
                 IF NoStr \in {body.job_id, body.user_sub, body.file_name,
                               body.s3_key}
                 THEN Return(f, 400, "", EmptyItem)
                 ELSE [f EXCEPT !.pc = "put", !.now = now,
                                !.job = JobItem(body.job_id, body.user_sub,
                                                body.file_name, body.s3_key,
                                                body.s3_bucket,
                                                file_size_bytes, now)])
    /\ calls' = calls + 1
    /\ UNCHANGED <<store, blobs, invoked>>

\* the S3 event branch up to table.put_item
CreateJobS3(p) ==
    /\ CanStart(p)
    /\ \E s3_key \in Keys, now \in Now :
          LET parts == Split(s3_key)
              ok == Len(parts) = 3 /\ parts[1] = <<"uploads">>
              user_sub == IF ok THEN parts[2] ELSE NoStr
              job_id == IF ok THEN StripPdf(parts[3]) ELSE NoStr
              f == Started("create", job_id, user_sub)
          IN ContinueAt(p,
                 IF ~ok THEN Return(f, 400, "", EmptyItem)
                 ELSE IF Blob(PDF_BUCKET_NAME, s3_key) \notin blobs
                 THEN Return(f, 500, "", EmptyItem)
                 ELSE [f EXCEPT !.pc = "put", !.now = now,
                                !.job = JobItem(job_id, user_sub,
                                                FileNameOf(job_id), s3_key,
                                                PDF_BUCKET_NAME,
                                                ContentLength, now)])
    /\ calls' = calls + 1
    /\ UNCHANGED <<store, blobs, invoked>>

\* table.put_item(Item=job_item) and the 200 response
CreateJobPut(p) ==
    /\ inv[p].op = "create" /\ inv[p].pc = "put"
    /\ store' = PutItem(store, inv[p].job_id, inv[p].job)
    /\ Continue(p, Return(inv[p], 200, "UPLOADED", EmptyItem))
    /\ UNCHANGED <<blobs, invoked, clock, calls>>

(* ------------------------------- getJob ------------------------------- *)
GetJobOwns(job, user_sub) == job.user_sub = user_sub

GetJob(p) ==
    /\ CanStart(p)
    /\ \E job_id \in JobIds \cup {NoStr}, claims \in ClaimsSet :
          LET user_sub == SubOnly(claims)
              f == Started("get", job_id, user_sub)
          IN Continue(p,
                 IF job_id = NoStr THEN Return(f, 400, "", EmptyItem)
                 ELSE IF user_sub = NoStr THEN Return(f, 401, "", EmptyItem)
                 ELSE IF ~HasItem(store, job_id)
                 THEN Return(f, 404, "", EmptyItem)
                 ELSE IF ~GetJobOwns(store[job_id], user_sub)
                 THEN Return(f, 403, "", EmptyItem)
                 ELSE ReturnJob(f, 200, store[job_id].status, store[job_id],
                                TRUE))
    /\ calls' = calls + 1
    /\ UNCHANGED <<store, blobs, invoked, clock>>

(* ----------------------------- getUserJobs ---------------------------- *)
\* the orders in which the index may return the items S, newest first
NewestFirst(st, S) ==
    {s \in [1..Cardinality(S) -> S] :
        /\ \A i, k \in 1..Cardinality(S) : i # k => s[i] # s[k]
        /\ \A i, k \in 1..Cardinality(S) :
               i < k => st[s[i]].created_at >= st[s[k]].created_at}

\* the first n elements of s
Limit(s, n) == SubSeq(s, 1, IF Len(s) < n THEN Len(s) ELSE n)

GetUserJobs(p) ==
    /\ CanStart(p)
    /\ \E claims \in ClaimsSet, param \in {NoStr, alice} :
          LET user_sub == IF SubOnly(claims) # NoStr THEN SubOnly(claims)
                          ELSE param
              f == Started("list", NoStr, user_sub)
              mine == {j \in DOMAIN store : store[j].user_sub = user_sub}
          IN IF user_sub = NoStr
             THEN Continue(p, Return(f, 400, "", EmptyItem))
             ELSE \E s \in NewestFirst(store, mine) :
                     Continue(p, [Return(f, 200, "", EmptyItem) EXCEPT
                         !.body.jobs = [i \in 1..Len(Limit(s, 20)) |->
                                           store[s[i]]]])
    /\ calls' = calls + 1
    /\ UNCHANGED <<store, blobs, invoked, clock>>

(* ------------------------------ cancelJob ----------------------------- *)
CancelOwns(job, user_sub) == job.user_sub = user_sub

\* current_status in ['COMPLETED', 'FAILED', 'CANCELLED']
IsTerminal(status) == status \in {"COMPLETED", "FAILED", "CANCELLED"}

\* the handler up to and including table.get_item and the checks on its
\* result; `now` is read before the update is sent
CancelJob(p) ==
    /\ CanStart(p)
    /\ \E job_id \in JobIds \cup {NoStr}, delete_file \in BOOLEAN,
          claims \in ClaimsSet, now \in Now :
          LET user_sub == UserSub(claims)
              f == [Started("cancel", job_id, user_sub) EXCEPT !.flag = delete_file]
          IN ContinueAt(p,
                 IF job_id = NoStr THEN Return(f, 400, "", EmptyItem)
                 ELSE IF user_sub = NoStr THEN Return(f, 403, "", EmptyItem)
                 ELSE IF ~HasItem(store, job_id)
                 THEN Return(f, 404, "", EmptyItem)
                 ELSE LET job == store[job_id]
                          g == [f EXCEPT !.job = job]
                      IN IF ~CancelOwns(job, user_sub)
                         THEN Return(g, 403, "", EmptyItem)
                         ELSE IF IsTerminal(job.status)
                         THEN ReturnJob(g, 400, job.status, job, FALSE)
                         ELSE [g EXCEPT !.pc = "update", !.now = now])
    /\ calls' = calls + 1
    /\ UNCHANGED <<store, blobs, invoked>>

\* table.update_item to CANCELLED, ReturnValues='ALL_NEW'
CancelUpdate(p) ==
    /\ inv[p].op = "cancel" /\ inv[p].pc = "update"
    /\ LET f == inv[p]
           st == UpdateItem(store, f.job_id,
                            [status |-> "CANCELLED", updated_at |-> f.now])
       IN /\ store' = st
          /\ Continue(p,
                 IF f.flag /\ f.job.s3_key # NoStr /\ f.job.s3_bucket # ""
                 THEN [f EXCEPT !.pc = "delete_object",
                                !.body.job = st[f.job_id]]
                 ELSE ReturnJob(f, 200, "CANCELLED", st[f.job_id], TRUE))
    /\ UNCHANGED <<blobs, invoked, clock, calls>>

\* s3_client.delete_object, which may fail; the cancellation succeeds
\* either way
CancelDeleteObject(p) ==
    /\ inv[p].op = "cancel" /\ inv[p].pc = "delete_object"
    /\ \E ok \in BOOLEAN :
          blobs' = IF ok THEN blobs \ {Blob(inv[p].job.s3_bucket, inv[p].job.s3_key)}
                   ELSE blobs
    /\ Continue(p, ReturnJob(inv[p], 200, "CANCELLED", inv[p].body.job, TRUE))
    /\ UNCHANGED <<store, invoked, clock, calls>>

(* --------------------------- startProcessing -------------------------- *)
\* a handler without the ownership test
StartDeniedNever(job, user_sub) == FALSE

\* the ownership test of line 48: skipped when the request has no identity
StartDenied(job, user_sub) == user_sub # NoStr /\ job.user_sub # user_sub

\* the handler up to and including table.get_item and the check on its
\* result; `now` is read before the update is sent
StartProcessing(p) ==
    /\ CanStart(p)
    /\ \E job_id \in JobIds \cup {NoStr}, claims \in ClaimsSet, now \in Now :
          LET user_sub == UserSub(claims)
              f == Started("start", job_id, user_sub)
          IN ContinueAt(p,
                 IF job_id = NoStr THEN Return(f, 400, "", EmptyItem)
                 ELSE IF ~HasItem(store, job_id)
                 THEN Return(f, 404, "", EmptyItem)
                 ELSE LET job == store[job_id]
                          g == [f EXCEPT !.job = job]
                      IN IF StartDenied(job, user_sub)
                         THEN Return(g, 403, "", EmptyItem)
                         ELSE [g EXCEPT !.pc = "update", !.now = now])
    /\ calls' = calls + 1
    /\ UNCHANGED <<store, blobs, invoked>>

\* table.update_item to PROCESSING with processing_metadata,
\* ReturnValues='ALL_NEW'
StartUpdate(p) ==
    /\ inv[p].op = "start" /\ inv[p].pc = "update"
    /\ LET f == inv[p]
           st == UpdateItem(store, f.job_id,
                    [status |-> "PROCESSING", updated_at |-> f.now,
                     processing_metadata |->
                         <<[s3_bucket |-> f.job.s3_bucket,
                            s3_key |-> f.job.s3_key, started_at |-> f.now]>>])
       IN /\ store' = st
          /\ Continue(p,
                 IF split_pdf_lambda # ""
                 THEN [f EXCEPT !.pc = "invoke", !.body.job = st[f.job_id]]
                 ELSE ReturnJob(f, 200, "PROCESSING", st[f.job_id], TRUE))
    /\ UNCHANGED <<blobs, invoked, clock, calls>>

\* lambda_client.invoke(InvocationType='Event'); on an exception the
\* handler reads the clock for the FAILED update
StartInvoke(p) ==
    /\ inv[p].op = "start" /\ inv[p].pc = "invoke"
    /\ \E ok \in BOOLEAN, now \in Now :
          IF ok
          THEN /\ invoked' = [invoked EXCEPT ![inv[p].job_id] = @ + 1]
               /\ ContinueAt(p, ReturnJob(inv[p], 200, "PROCESSING",
                                          inv[p].body.job, TRUE))
          ELSE /\ invoked' = invoked
               /\ ContinueAt(p, [inv[p] EXCEPT
                      !.pc = "failed", !.now = now,
                      !.body.job = EmptyItem,
                      !.detail.cause = "Failed to start processing"])
    /\ UNCHANGED <<store, blobs, calls>>

\* an except branch that records nothing but the time
StartFailureUnrecorded(cause, now) == [updated_at |-> now]

\* the attributes set by the update of the except branch of the invocation
StartFailure(cause, now) ==
    [status |-> "FAILED", error_message |-> cause, updated_at |-> now]

\* table.update_item to FAILED, then `raise`: the outer handler answers 500
StartFailed(p) ==
    /\ inv[p].op = "start" /\ inv[p].pc = "failed"
    /\ store' = UpdateItem(store, inv[p].job_id,
                    StartFailure(inv[p].detail.cause, inv[p].now))
    /\ Continue(p, Return(inv[p], 500, "", EmptyItem))
    /\ UNCHANGED <<blobs, invoked, clock, calls>>

(* ------------------------------ analyzePDF ---------------------------- *)
\* the handler up to and including table.get_item; job['s3_key'] raises
\* KeyError on an item without that attribute
AnalyzePDF(p) ==
    /\ CanStart(p)
    /\ \E job_id \in JobIds \cup {NoStr}, now \in Now :
          LET f == Started("analyze", job_id, NoStr)
          IN ContinueAt(p,
                 IF job_id = NoStr THEN Return(f, 400, "", EmptyItem)
                 ELSE IF ~HasItem(store, job_id)
                 THEN Return(f, 404, "", EmptyItem)
                 ELSE LET g == [f EXCEPT !.job = store[job_id], !.now = now]
                      IN IF store[job_id].s3_key = NoStr
                         THEN [g EXCEPT !.pc = "failed",
                                        !.detail.cause = "KeyError"]
                         ELSE [g EXCEPT !.pc = "mark"])
    /\ calls' = calls + 1
    /\ UNCHANGED <<store, blobs, invoked>>

\* the attributes set by the update of lines 52-60
AnalyzingMarker(now) == [status |-> "ANALYZING", updated_at |-> now]

\* table.update_item to ANALYZING
AnalyzeMark(p) ==
    /\ inv[p].op = "analyze" /\ inv[p].pc = "mark"
    /\ store' = UpdateItem(store, inv[p].job_id, AnalyzingMarker(inv[p].now))
    /\ Continue(p, [inv[p] EXCEPT !.pc = "fetch"])
    /\ UNCHANGED <<blobs, invoked, clock, calls>>

\* what get_object and PdfReader may do: raise, or give a document of
\* num_pages pages
FetchOutcomes ==
    {[error |-> e, num_pages |-> 0] : e \in {"ClientError", "PdfReadError"}}
        \cup {[error |-> "", num_pages |-> n] : n \in PageCounts}

\* s3_client.get_object and PyPDF2.PdfReader: the download fails (always
\* when the object is missing), the document does not parse, or it has
\* num_pages pages; the metrics are computed and the clock is read for the
\* update
AnalyzeFetch(p) ==
    /\ inv[p].op = "analyze" /\ inv[p].pc = "fetch"
    /\ \E outcome \in FetchOutcomes, now \in Now :
          /\ outcome.error # "ClientError" =>
                 Blob(PDF_BUCKET_NAME, inv[p].job.s3_key) \in blobs
          /\ ContinueAt(p,
                 IF outcome.error = ""
                 THEN [inv[p] EXCEPT !.pc = "save", !.now = now,
                                     !.metrics = <<Estimate(outcome.num_pages)>>]
                 ELSE [inv[p] EXCEPT !.pc = "failed", !.now = now,
                                     !.detail.cause = outcome.error])
    /\ UNCHANGED <<store, blobs, invoked, calls>>

\* table.update_item to ANALYSIS_COMPLETE with the metrics, and the 200
\* response
AnalyzeSave(p) ==
    /\ inv[p].op = "analyze" /\ inv[p].pc = "save"
    /\ store' = UpdateItem(store, inv[p].job_id,
                    [status |-> "ANALYSIS_COMPLETE",
                     metrics |-> inv[p].metrics,
                     updated_at |-> inv[p].now])
    /\ Continue(p, Return(inv[p], 200, "", EmptyItem))
    /\ UNCHANGED <<blobs, invoked, clock, calls>>

\* an except branch that puts the job back to UPLOADED
AnalysisReverted(cause, now) == [status |-> "UPLOADED", updated_at |-> now]

\* the attributes set by the update of lines 136-145
AnalysisFailure(cause, now) ==
    [status |-> "FAILED", error_message |-> cause, updated_at |-> now]

\* the except branch: table.update_item to FAILED with str(e), and the 500
\* response
AnalyzeFailed(p) ==
    /\ inv[p].op = "analyze" /\ inv[p].pc = "failed"
    /\ store' = UpdateItem(store, inv[p].job_id,
                    AnalysisFailure(inv[p].detail.cause, inv[p].now))
    /\ Continue(p, Return(inv[p], 500, "", EmptyItem))
    /\ UNCHANGED <<blobs, invoked, clock, calls>>

(* ------------------------------ deleteJob ----------------------------- *)
DeleteOwns(job, user_sub) == job.user_sub = user_sub

\* the keys put on s3_keys_to_delete before the chunk listing
KeysToDelete(job) ==
    (IF job.s3_key # NoStr THEN <<job.s3_key>> ELSE <<>>)
    \o (IF job.processed_s3_key # NoStr THEN <<job.processed_s3_key>> ELSE <<>>)
    \o (IF job.s3_key # NoStr
        THEN <<<<"temp", "/">> \o StripPdf(LastSegment(job.s3_key))
                 \o <<"_accessibility_report.json">>>>
        ELSE <<>>)

\* list_objects_v2(Bucket=pdf_bucket, Prefix=base_key + '_chunk_')
ChunkKeys(bl, s3_key) ==
    SetToSeq({b.key : b \in {x \in bl :
        /\ x.bucket = pdf_bucket
        /\ StartsWith(x.key, StripPdf(s3_key) \o <<"_chunk_">>)}})

\* the handler up to and including table.get_item and the checks on its
\* result
DeleteJob(p) ==
    /\ CanStart(p)
    /\ \E job_id \in JobIds \cup {NoStr}, cleanup_s3 \in BOOLEAN,
          claims \in ClaimsSet :
          LET user_sub == UserSub(claims)
              f == [Started("delete", job_id, user_sub) EXCEPT !.flag = cleanup_s3]
          IN Continue(p,
                 IF job_id = NoStr THEN Return(f, 400, "", EmptyItem)
                 ELSE IF user_sub = NoStr THEN Return(f, 403, "", EmptyItem)
                 ELSE IF ~HasItem(store, job_id)
                 THEN Return(f, 404, "", EmptyItem)
                 ELSE LET job == store[job_id]
                          g == [f EXCEPT !.job = job]
                      IN IF ~DeleteOwns(job, user_sub)
                         THEN Return(g, 403, "", EmptyItem)
                         ELSE IF ~(cleanup_s3 /\ pdf_bucket # "")
                         THEN [g EXCEPT !.pc = "delete_item"]
                         ELSE IF job.s3_key # NoStr
                         THEN [g EXCEPT !.pc = "list", !.todo = KeysToDelete(job)]
                         ELSE IF KeysToDelete(job) # <<>>
                         THEN [g EXCEPT !.pc = "delete_object",
                                        !.todo = KeysToDelete(job)]
                         ELSE [g EXCEPT !.pc = "delete_item"])
    /\ calls' = calls + 1
    /\ UNCHANGED <<store, blobs, invoked, clock>>

\* s3_client.list_objects_v2, whose failure is only printed
DeleteList(p) ==
    /\ inv[p].op = "delete" /\ inv[p].pc = "list"
    /\ \E ok \in BOOLEAN :
          Continue(p, [inv[p] EXCEPT
              !.pc = "delete_object",
              !.todo = IF ok THEN @ \o ChunkKeys(blobs, inv[p].job.s3_key)
                       ELSE @])
    /\ UNCHANGED <<store, blobs, invoked, clock, calls>>

\* one round of the loop over s3_keys_to_delete: s3_client.delete_object,
\* which deletes the object or fails with an error that is collected
DeleteObject(p) ==
    /\ inv[p].op = "delete" /\ inv[p].pc = "delete_object"
    /\ LET f == inv[p]
           s3_key == Head(f.todo)
           next == IF Tail(f.todo) = <<>> THEN "delete_item" ELSE "delete_object"
       IN \E ok \in BOOLEAN :
             /\ blobs' = IF ok THEN blobs \ {Blob(pdf_bucket, s3_key)} ELSE blobs
             /\ Continue(p,
                    [f EXCEPT !.pc = next, !.todo = Tail(f.todo),
                              !.deleted_files = IF ok THEN Append(@, s3_key) ELSE @,
                              !.s3_errors = IF ok THEN @ ELSE Append(@, s3_key)])
    /\ UNCHANGED <<store, invoked, clock, calls>>

\* table.delete_item and the 200 response with deleted_files and s3_warnings
DeleteItemStep(p) ==
    /\ inv[p].op = "delete" /\ inv[p].pc = "delete_item"
    /\ store' = DeleteItem(store, inv[p].job_id)
    /\ Continue(p, Return(inv[p], 200, "", EmptyItem))
    /\ UNCHANGED <<blobs, invoked, clock, calls>>

(* ------------------------ stepFunctionsCallback ----------------------- *)
TextMarker == <<"Filename", ":", "COMPLIANT_a.pdf", "|", "Status", ":", "ok">>
TextNoMarker == <<"Status", ":", "ok">>

\* detail.output: absent, or a JSON object whose ParallelResults is `results`
\* (empty also when the object has no such key)
Outputs ==
    {NoOutput} \cup
    {[present |-> TRUE, results |-> r] :
        r \in {<<>>, <<TextMarker>>, <<TextNoMarker>>}}

\* a search that takes the value of any label, not of Filename alone: the
\* word after the first ":" (what the marker rule excludes)
ExtractAnyLabel(text) ==
    LET hits == {i \in 1..(Len(text) - 2) :
                    /\ text[i + 1] = ":"
                    /\ text[i + 2] # "|"}
    IN IF hits = {} THEN <<>>
       ELSE <<text[(CHOOSE i \in hits : \A k \in hits : i <= k) + 2]>>

\* re.search(r'Filename\s*:\s*([^\s|]+)', result_str) over the words of
\* result_str: the word after the first "Filename" ":" that a word other
\* than "|" follows, or <<>> for no match
ExtractFilename(text) ==
    LET hits == {i \in 1..(Len(text) - 2) :
                    /\ text[i] = "Filename"
                    /\ text[i + 1] = ":"
                    /\ text[i + 2] # "|"}
    IN IF hits = {} THEN <<>>
       ELSE <<text[(CHOOSE i \in hits : \A k \in hits : i <= k) + 2]>>

\* processed_file_key of lines 80-92; <<>> is None
ProcessedFileKey(output) ==
    IF output.results # <<>> /\ ExtractFilename(output.results[1]) # <<>>
    THEN <<"result", "/">> \o ExtractFilename(output.results[1])
    ELSE NoStr

\* detail.input: job_id, and the s3_key at the top level ("s3_key"), in
\* chunks[0] ("chunks") or nowhere ("none"); "empty" is 'chunks': []
Input(job_id, shape, s3_key) ==
    [job_id |-> job_id, shape |-> shape, s3_key |-> s3_key]

Inputs ==
    {Input(j, "none", NoStr) : j \in JobIds \cup {NoStr}}
    \cup {Input(NoStr, "s3_key", k) : k \in {KeyA, KeyC}}
    \cup {Input(NoStr, "chunks", KeyC), Input(<<"a">>, "empty", NoStr),
          Input(<<"b">>, "s3_key", KeyA)}

\* the EventBridge events: detail.status, executionArn, output, input, cause
Event(status, execution_arn, output, input, cause) ==
    [status |-> status, execution_arn |-> execution_arn, output |-> output,
     input |-> input, cause |-> cause]

Events ==
    {Event("SUCCEEDED", TRUE, o, i, "") : o \in Outputs, i \in Inputs}
    \cup {Event("FAILED", TRUE, o, Input(<<"a">>, "none", NoStr), c) :
             o \in Outputs, c \in {"", "States.TaskFailed"}}
    \cup {Event("FAILED", TRUE, NoOutput, Input(NoStr, "s3_key", KeyC), "")}
    \cup {Event("TIMED_OUT", TRUE, o, Input(<<"a">>, "none", NoStr), "") :
             o \in {NoOutput, [present |-> TRUE, results |-> <<TextMarker>>]}}
    \cup {Event("SUCCEEDED", FALSE, NoOutput, Input(<<"a">>, "none", NoStr), "")}

\* a derivation that keeps the path of the key
PotentialJobIdOfPath(s3_key) == StripPdf(s3_key)

\* filename = s3_key.split('/')[-1]; filename.replace('.pdf', '')
PotentialJobId(s3_key) == StripPdf(LastSegment(s3_key))

\* lines 76-133 up to the update, for a callback whose job_id is settled:
\* 'ParallelResults' in None raises TypeError, answered with 500; a status
\* other than SUCCEEDED and FAILED is acknowledged without an update
Resolved(f, now) ==
    IF ~f.detail.output.present THEN Return(f, 500, "", EmptyItem)
    ELSE IF f.detail.status \in {"SUCCEEDED", "FAILED"}
    THEN [f EXCEPT !.pc = "update", !.now = now,
                   !.detail.processed_file_key =
                       ProcessedFileKey(f.detail.output)]
    ELSE Return(f, 200, f.detail.status, EmptyItem)

\* the handler up to and including the point lookup of the job_id derived
\* from the s3_key, whose `response` holds the item found
StepFunctionsCallback(p) ==
    /\ CanStart(p)
    /\ \E event \in Events, now \in Now :
          LET job_id == event.input.job_id
              s3_key == event.input.s3_key
              f == [Started("callback", job_id, NoStr) EXCEPT
                       !.detail = [NoDetail EXCEPT
                           !.status = event.status,
                           !.job_id = job_id, !.s3_key = s3_key,
                           !.shape = event.input.shape,
                           !.output = event.output,
                           !.cause = IF event.cause # "" THEN event.cause
                                     ELSE "Step Functions execution failed"]]
              potential_job_id == PotentialJobId(s3_key)
          IN ContinueAt(p,
                 IF ~event.execution_arn THEN Return(f, 400, "", EmptyItem)
                 ELSE IF event.input.shape = "empty"
                 THEN Return(f, 500, "", EmptyItem)
                 ELSE IF job_id = NoStr /\ s3_key = NoStr
                 THEN Return(f, 400, "", EmptyItem)
                 ELSE IF job_id # NoStr THEN Resolved(f, now)
                 ELSE IF HasItem(store, potential_job_id)
                 THEN Resolved([f EXCEPT !.job_id = potential_job_id,
                                         !.job = store[potential_job_id]],
                               now)
                 ELSE [f EXCEPT !.pc = "scan"])
    /\ calls' = calls + 1
    /\ UNCHANGED <<store, blobs, invoked>>

\* table.scan(FilterExpression=Attr('s3_key').eq(s3_key), Limit=1): the
\* scan reads one item, whichever the table holds first, and returns it if
\* it passes the filter
CallbackScan(p) ==
    /\ inv[p].op = "callback" /\ inv[p].pc = "scan"
    /\ IF DOMAIN store = {}
       THEN Continue(p, Return(inv[p], 404, "", EmptyItem)) /\ clock' = clock
       ELSE \E first \in DOMAIN store, now \in Now :
               ContinueAt(p,
                   IF store[first].s3_key = inv[p].detail.s3_key
                   THEN Resolved([inv[p] EXCEPT !.job_id = first], now)
                   ELSE Return(inv[p], 404, "", EmptyItem))
    /\ UNCHANGED <<store, blobs, invoked, calls>>

\* table.update_item to COMPLETED or to FAILED, and the 200 response
CallbackUpdate(p) ==
    /\ inv[p].op = "callback" /\ inv[p].pc = "update"
    /\ LET f == inv[p]
       IN store' =
            IF f.detail.status = "SUCCEEDED"
            THEN IF f.detail.processed_file_key # NoStr
                 THEN UpdateItem(store, f.job_id,
                          [status |-> "COMPLETED", updated_at |-> f.now,
                           processed_s3_key |-> f.detail.processed_file_key])
                 ELSE UpdateItem(store, f.job_id,
                          [status |-> "COMPLETED", updated_at |-> f.now])
            ELSE UpdateItem(store, f.job_id,
                     [status |-> "FAILED", updated_at |-> f.now,
                      error_message |-> f.detail.cause])
    /\ Continue(p, Return(inv[p], 200, inv[p].detail.status, EmptyItem))
    /\ UNCHANGED <<blobs, invoked, clock, calls>>

(* ---------------------------- specification --------------------------- *)
Next ==
    \E p \in Procs :
          \/ CreateJobApi(p) \/ CreateJobS3(p) \/ CreateJobPut(p)
          \/ GetJob(p) \/ GetUserJobs(p)
          \/ AnalyzePDF(p) \/ AnalyzeMark(p) \/ AnalyzeFetch(p)
          \/ AnalyzeSave(p) \/ AnalyzeFailed(p)
          \/ StartProcessing(p) \/ StartUpdate(p) \/ StartInvoke(p)
          \/ StartFailed(p)
          \/ CancelJob(p) \/ CancelUpdate(p) \/ CancelDeleteObject(p)
          \/ DeleteJob(p) \/ DeleteList(p) \/ DeleteObject(p)
          \/ DeleteItemStep(p)
          \/ StepFunctionsCallback(p) \/ CallbackScan(p) \/ CallbackUpdate(p)

Spec == Init /\ [][Next]_vars

(* ------------------------------ properties ---------------------------- *)
Terminal == {"COMPLETED", "FAILED", "CANCELLED"}
NonTerminal == {"UPLOADED", "ANALYZING", "ANALYSIS_COMPLETE", "PROCESSING"}

\* the edges of the transition table between two statuses
TransitionTable ==
    {<<"UPLOADED", "ANALYZING">>, <<"ANALYZING", "ANALYSIS_COMPLETE">>,
     <<"UPLOADED", "PROCESSING">>, <<"ANALYSIS_COMPLETE", "PROCESSING">>,
     <<"PROCESSING", "COMPLETED">>}
    \cup (NonTerminal \X {"FAILED", "CANCELLED"})

\* the slots whose invocation takes this step and goes on after it
Stepping == {p \in Procs : inv'[p] # inv[p] /\ inv'[p].pc # "done"}

\* the handler that takes this step
Acting(op) == last'.op = op \/ \E p \in Stepping : inv'[p].op = op

\* the invocations that start in this step, as the step leaves them: with
\* the response, or with the locals they go on with
Begun ==
    IF calls' = calls + 1
    THEN ({last'} \ {Idle}) \cup {inv'[p] : p \in Stepping}
    ELSE {}

\* invocation f has read the record of its job in the step that started it,
\* and the caller is the owner of the record
ByOwner(f) ==
    /\ HasItem(store, f.job_id)
    /\ f.user_sub # NoStr
    /\ store[f.job_id].user_sub = f.user_sub

\* invocation f was denied with `code` in the step that started it, which
\* changed nothing
Rejected(f, code) ==
    /\ f.pc = "done"
    /\ f.statusCode = code
    /\ UNCHANGED <<store, blobs, invoked, inv>>

\* C1: every change of a record's status follows an edge of the transition
\* table, and a record comes into existence as UPLOADED.
StatusFollowsTransitionTable ==
    [][\A j \in DOMAIN store' :
          IF HasItem(store, j)
          THEN store'[j].status # store[j].status =>
                   <<store[j].status, store'[j].status>> \in TransitionTable
          ELSE store'[j].status = "UPLOADED"]_vars

\* C2: once a record is COMPLETED, FAILED or CANCELLED, no step of analyze,
\* start, cancel or the callback changes its status; delete may remove it.
TerminalIsAbsorbing ==
    [][\A j \in DOMAIN store :
          (/\ store[j].status \in Terminal
           /\ \E op \in {"analyze", "start", "cancel", "callback"} : Acting(op)
           /\ HasItem(store', j))
          => store'[j].status = store[j].status]_vars

\* C3: of a cancel and a completion callback that both read the same job as
\* PROCESSING, the one that writes second finds the job no longer PROCESSING
\* and its write is not applied: the cancel does not overwrite the
\* callback's COMPLETED or FAILED, nor answers 200, and the callback does not
\* overwrite the cancel's CANCELLED.
RaceLoserIsRejected ==
    [][\A p \in Procs :
          LET f == inv[p]
          IN (/\ f.pc = "update"
              /\ inv'[p] # f
              /\ HasItem(store, f.job_id)
              /\ \/ /\ f.op = "cancel"
                    /\ f.job.status = "PROCESSING"
                    /\ store[f.job_id].status \in {"COMPLETED", "FAILED"}
                 \/ /\ f.op = "callback"
                    /\ f.job.status = "PROCESSING"
                    /\ store[f.job_id].status = "CANCELLED")
             => /\ store' = store
                /\ f.op = "cancel" => last'.statusCode # 200]_vars

\* C4: a completion callback (SUCCEEDED or FAILED) whose update reaches a
\* job in a terminal state changes no field of the record, updated_at
\* included, and is answered with 200.
TerminalCallbackIsNoOp ==
    [][\A p \in Procs :
          LET f == inv[p]
          IN (/\ f.op = "callback" /\ f.pc = "update"
              /\ inv'[p] # f
              /\ HasItem(store, f.job_id)
              /\ store[f.job_id].status \in Terminal)
             => /\ store' = store
                /\ last'.statusCode = 200]_vars

\* C5: get, cancel, delete and start of an existing job by a caller whose
\* identity is not empty and is not the owner's answer 403 and change
\* neither the table, nor the bucket, nor the count of engine invocations.
\* (The caller's identity is the one the handler takes from the claims.)
StrangerIsForbidden ==
    [][\A f \in Begun :
          (/\ f.op \in {"get", "cancel", "delete", "start"}
           /\ HasItem(store, f.job_id)
           /\ f.user_sub # NoStr
           /\ store[f.job_id].user_sub # f.user_sub)
          => Rejected(f, 403)]_vars

\* a stranger's start was answered 403
StrangerStartForbidden ==
    /\ last.op = "start" /\ last.statusCode = 403
    /\ last.user_sub = bob
    /\ HasItem(store, last.job_id)
    /\ store[last.job_id].user_sub = alice

\* C6: a start, cancel or delete without a caller identity is denied: it is
\* not answered 200, and no step of it changes the table, the bucket or the
\* count of engine invocations.
AnonymousIsDenied ==
    [][/\ \A f \in Begun :
             (f.op \in {"start", "cancel", "delete"} /\ f.user_sub = NoStr)
             => f.pc = "done" /\ f.statusCode \in {400, 403, 404}
       /\ \A p \in Procs :
             (/\ inv[p].op \in {"start", "cancel", "delete"}
              /\ inv[p].user_sub = NoStr
              /\ inv'[p] # inv[p])
             => UNCHANGED <<store, blobs, invoked>>]_vars

\* C7: start by the owner of a job whose status is neither UPLOADED nor
\* ANALYSIS_COMPLETE is answered 400 with the current status echoed, and
\* changes neither the record nor the count of engine invocations.
StartOnlyWhenReady ==
    [][\A f \in Begun :
          (/\ f.op = "start"
           /\ ByOwner(f)
           /\ store[f.job_id].status \notin {"UPLOADED", "ANALYSIS_COMPLETE"})
          => /\ Rejected(f, 400)
             /\ f.body.status = store[f.job_id].status]_vars

\* C8: cancel by the owner of a job whose status is COMPLETED, FAILED or
\* CANCELLED is answered 400 with the current status echoed; the record is
\* unchanged and no object is deleted, whatever the delete_file flag.
TerminalCancelIsRejected ==
    [][\A f \in Begun :
          (/\ f.op = "cancel"
           /\ ByOwner(f)
           /\ store[f.job_id].status \in Terminal)
          => /\ Rejected(f, 400)
             /\ f.body.status = store[f.job_id].status
             /\ f.body.job = store[f.job_id]]_vars

\* C9: analyze of a job whose status is not UPLOADED is rejected, and no
\* step of it changes the record.
AnalyzeOnlyWhenUploaded ==
    [][/\ \A f \in Begun :
             (/\ f.op = "analyze"
              /\ HasItem(store, f.job_id)
              /\ store[f.job_id].status # "UPLOADED")
             => f.pc = "done" /\ f.statusCode \in {400, 403, 404}
       /\ \A p \in Procs :
             (/\ inv[p].op = "analyze"
              /\ inv[p].job.status # "UPLOADED"
              /\ inv'[p] # inv[p])
             => store' = store]_vars

\* C10: analyze gets to the download only by the step that writes ANALYZING,
\* and the download and the estimation write nothing, so that a job analyzed
\* with no other invocation started reads ANALYZING while they run; the
\* failure step leaves the record FAILED with error_message the cause and
\* the metrics as they were; and no step of analyze makes a record UPLOADED.
AnalyzingBeforeFetch ==
    [][\A p \in Procs :
          LET f == inv[p]
              g == inv'[p]
              j == g.job_id
          IN /\ (g.op = "analyze" /\ g.pc = "fetch" /\ f.pc # "fetch")
                => store'[j].status = "ANALYZING"
             /\ (g.op = "analyze" /\ g.pc = "fetch" /\ calls' = 1)
                => store'[j].status = "ANALYZING"
             /\ (f.op = "analyze" /\ f.pc = "fetch" /\ g # f)
                => store' = store
             /\ (f.op = "analyze" /\ f.pc = "failed" /\ g # f)
                => /\ store'[f.job_id].status = "FAILED"
                   /\ store'[f.job_id].error_message = f.detail.cause
                   /\ f.detail.cause # ""
                   /\ store'[f.job_id].metrics =
                          IF HasItem(store, f.job_id)
                          THEN store[f.job_id].metrics ELSE <<>>
             /\ (f.op = "analyze" /\ g # f)
                => \A k \in DOMAIN store' :
                      store'[k].status = "UPLOADED"
                      => HasItem(store, k) /\ store[k].status = "UPLOADED"]_vars

\* an analyze whose download or parse failed was answered 500, the job
\* FAILED with the cause of the failure and no metrics
AnalyzeFailedAfterFetch ==
    /\ last.op = "analyze" /\ last.statusCode = 500
    /\ HasItem(store, last.job_id)
    /\ store[last.job_id].status = "FAILED"
    /\ store[last.job_id].error_message \in {"ClientError", "PdfReadError"}
    /\ store[last.job_id].metrics = <<>>

\* C11: a completion callback with status FAILED whose job is resolved and
\* PROCESSING goes on to its update whatever the output of the event, an
\* absent output included, and the update leaves the job FAILED with an
\* error_message.
FailureSignalFailsJob ==
    [][/\ \A f \in Begun :
             (/\ f.op = "callback"
              /\ f.detail.status = "FAILED"
              /\ HasItem(store, f.job_id)
              /\ store[f.job_id].status = "PROCESSING")
             => f.pc = "update"
       /\ \A p \in Procs :
             (/\ inv[p].op = "callback" /\ inv[p].pc = "update"
              /\ inv[p].detail.status = "FAILED"
              /\ inv'[p] # inv[p])
             => /\ store'[inv[p].job_id].status = "FAILED"
                /\ store'[inv[p].job_id].error_message # ""
                /\ last'.statusCode = 200]_vars

\* the jobs whose processing_metadata holds s3_key as the source location
SnapshotMatches(s3_key) ==
    {j \in DOMAIN store :
        /\ store[j].processing_metadata # <<>>
        /\ store[j].processing_metadata[1].s3_key = s3_key}

\* C12: the scan of a callback without job_id, whose derived job_id is not
\* in the table, settles on the one job whose processing_metadata holds the
\* s3_key of the input; when no job or more than one job holds it, the
\* callback is answered with an error and the table is unchanged.
ScanSelectsTheOneMatch ==
    [][\A p \in Procs :
          (inv[p].op = "callback" /\ inv[p].pc = "scan" /\ inv'[p] # inv[p])
          => LET m == SnapshotMatches(inv[p].detail.s3_key)
                 g == IF inv'[p].pc # "done" THEN inv'[p] ELSE last'
             IN IF Cardinality(m) = 1
                THEN g.job_id \in m
                ELSE /\ g.pc = "done" /\ g.statusCode # 200
                     /\ g.job_id = NoStr
                     /\ store' = store]_vars

\* a callback was answered 404 although exactly one job holds the s3_key of
\* its input as the source location: the scan had read another item
ScanMissedTheOneMatch ==
    /\ last.op = "callback" /\ last.statusCode = 404
    /\ Cardinality(SnapshotMatches(last.detail.s3_key)) = 1

\* the last path segment of s3_key without its extension
Candidate(s3_key) ==
    LET seg == LastSegment(s3_key)
    IN IF seg # <<>> /\ seg[Len(seg)] = ".pdf"
       THEN SubSeq(seg, 1, Len(seg) - 1) ELSE seg

UnresolvableIsRejected ==
    [][/\ \A f \in Begun :
             (/\ f.op = "callback"
              /\ \/ f.detail.job_id = NoStr /\ f.detail.s3_key = NoStr
                 \/ f.detail.job_id # NoStr /\ ~HasItem(store, f.detail.job_id))
             => /\ f.pc = "done" /\ f.statusCode \in 400..499
                /\ store' = store
       /\ \A p \in Procs :
             (inv[p].op = "callback" /\ inv'[p] # inv[p])
             => /\ DOMAIN store' = DOMAIN store
                /\ (inv[p].pc = "scan" /\ last'.job_id = NoStr
                    /\ inv'[p].pc = "done")
                   => last'.statusCode \in 400..499 /\ store' = store]_vars

\* a callback naming a job_id the table did not hold was acknowledged with
\* 200 and left an item of that key, without owner and source location
UnknownJobAcknowledged ==
    /\ last.op = "callback" /\ last.statusCode = 200
    /\ last.detail.job_id = <<"b">>
    /\ HasItem(store, <<"b">>)
    /\ store[<<"b">>].user_sub = NoStr /\ store[<<"b">>].s3_key = NoStr
    /\ store[<<"b">>].status = "COMPLETED"

\* the output holds a result text, or none, without the label "Filename"
NoMarker(output) ==
    /\ output.present
    /\ output.results # <<>>
       => \A i \in 1..Len(output.results[1]) :
             output.results[1][i] # "Filename"

\* C15: a callback with status SUCCEEDED for a resolved PROCESSING job (the
\* input not one with an empty chunks list, which is not resolved), whose
\* output has no filename marker, goes on to its update, which leaves
\* the job COMPLETED, does not set processed_s3_key nor error_message, and
\* is answered 200.
MarkerlessSuccessCompletes ==
    [][/\ \A f \in Begun :
             (/\ f.op = "callback"
              /\ f.detail.status = "SUCCEEDED"
              /\ f.detail.shape # "empty"
              /\ NoMarker(f.detail.output)
              /\ HasItem(store, f.job_id)
              /\ store[f.job_id].status = "PROCESSING")
             => f.pc = "update"
       /\ \A p \in Procs :
             LET f == inv[p]
             IN (/\ f.op = "callback" /\ f.pc = "update"
                 /\ inv'[p] # f
                 /\ f.detail.status = "SUCCEEDED"
                 /\ NoMarker(f.detail.output)
                 /\ HasItem(store, f.job_id)
                 /\ store[f.job_id].status = "PROCESSING")
                => /\ store'[f.job_id].status = "COMPLETED"
                   /\ store'[f.job_id].processed_s3_key =
                          store[f.job_id].processed_s3_key
                   /\ store'[f.job_id].error_message =
                          store[f.job_id].error_message
                   /\ last'.statusCode = 200]_vars

\* a started job was completed by a callback whose result text has no
\* marker, and has no processed_s3_key
CompletedWithoutResult ==
    /\ last.op = "callback" /\ last.statusCode = 200
    /\ last.detail.status = "SUCCEEDED"
    /\ last.detail.output.results = <<TextNoMarker>>
    /\ HasItem(store, last.job_id)
    /\ store[last.job_id].processing_metadata # <<>>
    /\ store[last.job_id].status = "COMPLETED"
    /\ store[last.job_id].processed_s3_key = NoStr


\* C16: in every state, every record has a processed_s3_key if and only if
\* its status is COMPLETED.
ResultIffCompleted ==
    \A j \in DOMAIN store :
        store[j].processed_s3_key # NoStr <=> store[j].status = "COMPLETED"

\* a record that a cancel, whose read of PROCESSING a completion overtook,
\* left CANCELLED with the processed_s3_key of the completion
CancelledWithResult ==
    /\ last.op = "cancel" /\ last.statusCode = 200
    /\ HasItem(store, last.job_id)
    /\ store[last.job_id].status = "CANCELLED"
    /\ store[last.job_id].processed_s3_key # NoStr

\* C17: in every state, a record has an error_message only when its status
\* is FAILED or CANCELLED.
ErrorOnlyWhenFailedOrCancelled ==
    \A j \in DOMAIN store :
        store[j].error_message # ""
            => store[j].status \in {"FAILED", "CANCELLED"}

\* a record that failed, keeping its error_message under the status a later
\* analysis gave it
AnalyzedWithError ==
    /\ last.op = "analyze" /\ last.statusCode = 200
    /\ HasItem(store, last.job_id)
    /\ store[last.job_id].status = "ANALYSIS_COMPLETE"
    /\ store[last.job_id].error_message # ""


\* C18: no step changes the owner of a record that it keeps: the user_sub a
\* record has is the one its first create stored, also after a second create
\* of the same job_id for another owner.
OwnerNeverChanges ==
    [][\A j \in DOMAIN store \cap DOMAIN store' :
          store'[j].user_sub = store[j].user_sub]_vars

\* the only invocation so far is a create for bob, and it has replaced the
\* record of alice whose processing had been started
OwnerReplaced ==
    /\ calls = 1 /\ last.op = "create" /\ last.statusCode = 200
    /\ last.job_id = <<"a">> /\ invoked[<<"a">>] = 1
    /\ store[<<"a">>].user_sub = bob
    /\ store[<<"a">>].status = "UPLOADED"

\* C19: no step lowers the updated_at of a record that it keeps, the clock
\* never going backwards, also when two handlers have both read the clock
\* before either writes.
UpdatedAtNeverDecreases ==
    [][\A j \in DOMAIN store \cap DOMAIN store' :
          store'[j].updated_at >= store[j].updated_at]_vars

\* a cancel that read the clock before a completion callback did is about to
\* write its older reading over the updated_at the callback has written
StaleTimestampPending ==
    \E p \in Procs :
        /\ inv[p].op = "cancel" /\ inv[p].pc = "update"
        /\ last.op = "callback" /\ last.statusCode = 200
        /\ last.job_id = inv[p].job_id
        /\ HasItem(store, inv[p].job_id)
        /\ inv[p].now < store[inv[p].job_id].updated_at

\* the first status write of a handler that has read the record: of a
\* cancel, a start, an analysis, and a callback that looked the job up
FirstWrite(f) ==
    \/ f.op \in {"cancel", "start", "callback"} /\ f.pc = "update"
    \/ f.op = "analyze" /\ f.pc = "mark"

\* C20: a status write is conditional on the status its handler read: when
\* another handler has changed the status of the record (or removed it)
\* between the read and the write, the write is not applied.
WriteIsConditionalOnRead ==
    [][\A p \in Procs :
          LET f == inv[p]
          IN (/\ FirstWrite(f) /\ inv'[p] # f
              /\ f.job # EmptyItem
              /\ \/ ~HasItem(store, f.job_id)
                 \/ store[f.job_id].status # f.job.status)
             => store' = store]_vars

\* a start that read ANALYSIS_COMPLETE is about to write PROCESSING over a
\* record that a cancel has meanwhile made CANCELLED
StaleReadPending ==
    \E p \in Procs :
        /\ inv[p].op = "start" /\ inv[p].pc = "update"
        /\ inv[p].job.status # "CANCELLED"
        /\ last.op = "cancel" /\ last.statusCode = 200
        /\ last.job_id = inv[p].job_id
        /\ HasItem(store, inv[p].job_id)
        /\ store[inv[p].job_id].status = "CANCELLED"


\* the blob deletion that the handler of slot p attempts in this step, and
\* whether it fails: the object is there and stays
Deleting(p) == inv[p].pc = "delete_object" /\ inv'[p] # inv[p]
DeletionFails(p) ==
    LET f == inv[p]
        blob == IF f.op = "cancel" THEN Blob(f.job.s3_bucket, f.job.s3_key)
                ELSE Blob(pdf_bucket, Head(f.todo))
    IN blob \in blobs /\ blobs' = blobs

\* C21: cancel and delete attempt a blob deletion only after their state
\* change has committed (the record CANCELLED, the record removed); the
\* attempt leaves the table alone, and when it fails the call goes on to
\* answer 200 with the failure among its warnings.
CommitBeforeCleanup ==
    [][\A p \in Procs :
          LET f == inv[p]
          IN Deleting(p) =>
                /\ f.op = "cancel" =>
                      /\ HasItem(store, f.job_id)
                      /\ store[f.job_id].status = "CANCELLED"
                /\ f.op = "delete" => ~HasItem(store, f.job_id)
                /\ store' = store
                /\ DeletionFails(p) =>
                      IF inv'[p].pc = "done"
                      THEN last'.statusCode = 200 /\ last'.s3_errors # <<>>
                      ELSE Len(inv'[p].s3_errors) = Len(f.s3_errors) + 1]_vars

\* a delete whose blob deletion failed has removed the record and answers
\* 200 with the failure as a warning
CleanupFailureReported ==
    /\ last.op = "delete" /\ last.statusCode = 200
    /\ last.s3_errors # <<>>
    /\ ~HasItem(store, last.job_id)


\* the keys of the objects of pdf_bucket that this step removes
RemovedKeys == {b.key : b \in {x \in blobs \ blobs' : x.bucket = pdf_bucket}}

\* C22: a delete by the owner is not rejected, whatever the status of the
\* record; each object it removes is put on deleted_files; its last step
\* removes the record and answers 200 with deleted_files. A get, and a
\* delete, of a job_id that has no record answer 404 and change nothing.
DeleteSucceedsFromAnyStatus ==
    [][/\ \A f \in Begun :
             /\ (f.op = "delete" /\ ByOwner(f)) => f.pc # "done"
             /\ (/\ f.op \in {"get", "delete"}
                 /\ f.job_id # NoStr /\ f.user_sub # NoStr
                 /\ ~HasItem(store, f.job_id))
                => Rejected(f, 404)
       /\ \A p \in Procs :
             LET f == inv[p]
             IN (f.op = "delete" /\ inv'[p] # f) =>
                   /\ f.pc = "delete_object" =>
                         /\ store' = store
                         /\ \A k \in RemovedKeys :
                               /\ inv'[p].pc # "done"
                               /\ inv'[p].deleted_files = Append(f.deleted_files, k)
                   /\ f.pc = "delete_item" =>
                         /\ ~HasItem(store', f.job_id)
                         /\ last'.statusCode = 200
                         /\ last'.deleted_files = f.deleted_files
                         /\ blobs' = blobs]_vars

\* a delete, the second invocation to start, has removed the record and
\* the upload, and answers 200 naming the upload
DeletedWithFiles ==
    /\ last.op = "delete" /\ last.statusCode = 200
    /\ calls = 2
    /\ last.deleted_files # <<>>
    /\ last.deleted_files[1] = KeyC
    /\ Blob(pdf_bucket, KeyC) \notin blobs
    /\ ~HasItem(store, last.job_id)


\* C23: a cancel by the owner of a job whose status is not terminal is not
\* rejected; its update, reaching the record still not terminal, sets status
\* CANCELLED and updated_at and nothing else (owner, source location, metrics
\* and processing_metadata stay, and so does every other record), and the
\* call answers 200 with the record as updated.
CancelChangesOnlyStatus ==
    [][/\ \A f \in Begun :
             (/\ f.op = "cancel" /\ ByOwner(f)
              /\ store[f.job_id].status \in NonTerminal)
             => f.pc = "update"
       /\ \A p \in Procs :
             LET f == inv[p]
             IN (f.op = "cancel" /\ inv'[p] # f) =>
                   /\ (/\ f.pc = "update"
                       /\ HasItem(store, f.job_id)
                       /\ store[f.job_id].status \in NonTerminal)
                      => /\ store' = [store EXCEPT ![f.job_id] =
                                        [@ EXCEPT !.status = "CANCELLED",
                                                  !.updated_at = f.now]]
                         /\ blobs' = blobs
                         /\ IF inv'[p].pc = "done"
                            THEN /\ last'.statusCode = 200
                                 /\ last'.body.status = "CANCELLED"
                                 /\ last'.body.job = store'[f.job_id]
                            ELSE inv'[p].body.job = store'[f.job_id]
                   /\ f.pc = "delete_object"
                      => /\ store' = store
                         /\ last'.statusCode = 200
                         /\ last'.body.status = "CANCELLED"
                         /\ last'.body.job = f.body.job]_vars

\* a cancelled PROCESSING job keeps its owner, source location and
\* processing_metadata, and the response carries the record
CancelledKeepsMetadata ==
    /\ last.op = "cancel" /\ last.statusCode = 200
    /\ HasItem(store, last.job_id)
    /\ last.body.job = store[last.job_id]
    /\ store[last.job_id].status = "CANCELLED"
    /\ store[last.job_id].user_sub = last.user_sub
    /\ store[last.job_id].s3_key = KeyC
    /\ store[last.job_id].processing_metadata # <<>>


\* C24: every response of create, analyze, start, cancel, delete, get and
\* list is a success (200) or one of 404, 403, 400 and 500.
OnlyFourErrorCodes ==
    last.op \in {"create", "analyze", "start", "cancel", "delete", "get", "list"}
        => last.statusCode \in {200, 404, 403, 400, 500}

\* a get without the sub claim is answered with 401
GetAnswers401 ==
    /\ last.op = "get" /\ last.statusCode = 401
    /\ last.job_id # NoStr /\ last.user_sub = NoStr


\* C25: a start whose invocation of the engine fails (no invocation is
\* counted) goes on to record the failure: its next step leaves the job
\* FAILED with the cause as error_message and answers 500, with no record
\* in the response.
StartFailureIsRecorded ==
    [][\A p \in Procs :
          LET f == inv[p]
          IN (f.op = "start" /\ inv'[p] # f) =>
                /\ (f.pc = "invoke" /\ invoked' = invoked)
                   => /\ inv'[p].pc = "failed"
                      /\ inv'[p].detail.cause # ""
                /\ f.pc = "failed"
                   => /\ HasItem(store', f.job_id)
                      /\ store'[f.job_id].status = "FAILED"
                      /\ store'[f.job_id].error_message = f.detail.cause
                      /\ f.detail.cause # ""
                      /\ last'.statusCode = 500
                      /\ last'.body.status # "PROCESSING"
                      /\ last'.body.job = EmptyItem]_vars

\* a start has answered 500 and the job is FAILED with the cause
StartFailureRecorded ==
    /\ last.op = "start" /\ last.statusCode = 500
    /\ HasItem(store, last.job_id)
    /\ store[last.job_id].status = "FAILED"
    /\ store[last.job_id].error_message = "Failed to start processing"
    /\ invoked[last.job_id] = 0


\* C26: the metrics stored for a document of p pages have
\* estimated_transactions = 10 * p and estimated_cost_percentage =
\* p * 10 / 25000 * 100 rounded to two decimals (kept in hundredths).
TenTransactionsPerPage ==
    \A j \in DOMAIN store :
        store[j].metrics # <<>> =>
            LET m == store[j].metrics[1]
            IN /\ m.estimated_transactions = 10 * m.num_pages
               /\ m.estimated_cost_percentage =
                      RoundHundredths(m.num_pages * 10 * 100, 25000)

\* an analysis of a 60-page document has stored 180 transactions and 0.72 %
SixtyPagesStored ==
    /\ last.op = "analyze" /\ last.statusCode = 200
    /\ HasItem(store, last.job_id)
    /\ store[last.job_id].status = "ANALYSIS_COMPLETE"
    /\ store[last.job_id].metrics # <<>>
    /\ store[last.job_id].metrics[1].num_pages = 60
    /\ store[last.job_id].metrics[1].estimated_transactions = 180
    /\ store[last.job_id].metrics[1].estimated_cost_percentage = 72


\* C27: the stored complexity is a non-decreasing function of the stored
\* average of elements per page alone, and an average of 40 is in the lowest
\* of the three levels; so metrics whose average is at most 40 have the
\* lowest level, whatever the page count.
ComplexityFollowsAverage ==
    \A j \in DOMAIN store :
        store[j].metrics # <<>> =>
            LET m == store[j].metrics[1]
            IN /\ m.complexity \in {"simple", "moderate", "complex"}
               /\ m.avg_elements_per_page <= 40 => m.complexity = "simple"

\* a 60-page document is stored with an average of 30 elements per page and
\* the top level
ComplexAtThirtyPerPage ==
    \E j \in DOMAIN store :
        /\ store[j].metrics # <<>>
        /\ store[j].metrics[1].num_pages = 60
        /\ store[j].metrics[1].avg_elements_per_page = 30
        /\ store[j].metrics[1].complexity = "complex"


\* C28: an analysis whose document does not parse does not take the failure
\* path: it goes on with fallback metrics, and returns 200 leaving the job
\* ANALYSIS_COMPLETE with its error_message untouched.
ParseFailureFallsBack ==
    [][\A p \in Procs :
          LET f == inv[p]
              g == inv'[p]
          IN (/\ f.op = "analyze" /\ g # f
              /\ "PdfReadError" \in {f.detail.cause, g.detail.cause})
             => /\ g.pc # "failed"
                /\ g.pc # "done" => g.metrics # <<>>
                /\ g.pc = "done"
                   => /\ last'.statusCode = 200
                      /\ HasItem(store', f.job_id)
                      /\ store'[f.job_id].status = "ANALYSIS_COMPLETE"
                      /\ store'[f.job_id].error_message # "PdfReadError"]_vars

\* an analysis of a document that does not parse has answered 500 and left
\* the job FAILED with the parse error as error_message, without metrics
ParseErrorFailedJob ==
    /\ last.op = "analyze" /\ last.statusCode = 500
    /\ HasItem(store, last.job_id)
    /\ store[last.job_id].status = "FAILED"
    /\ store[last.job_id].error_message = "PdfReadError"
    /\ store[last.job_id].metrics = <<>>
    /\ Blob(PDF_BUCKET_NAME, store[last.job_id].s3_key) \in blobs


\* C29: in every state, a record whose status is PROCESSING has a
\* processing_metadata, whose s3_bucket and s3_key are the record's.
ProcessingHasSourceSnapshot ==
    \A j \in DOMAIN store :
        store[j].status = "PROCESSING" =>
            /\ store[j].processing_metadata # <<>>
            /\ store[j].processing_metadata[1].s3_bucket = store[j].s3_bucket
            /\ store[j].processing_metadata[1].s3_key = store[j].s3_key


\* a start whose record a delete removed between its read and its write has
\* stored a PROCESSING record that has the snapshot but no source location
ProcessingWithoutSource ==
    \E j \in DOMAIN store :
        /\ store[j].status = "PROCESSING"
        /\ store[j].s3_key = NoStr
        /\ store[j].processing_metadata # <<>>
        /\ store[j].processing_metadata[1].s3_key = KeyC


\* C30: every record has an owner and a created_at, and only a step of
\* create adds a job_id to the table: no step of analyze, start, cancel or
\* the callback stores a record for a job_id that has none, whether the
\* record was deleted or never existed.
OnlyCreateAddsRecords ==
    [][/\ \A j \in DOMAIN store' :
             /\ store'[j].user_sub # NoStr
             /\ store'[j].created_at # 0
       /\ DOMAIN store' \ DOMAIN store # {} => Acting("create")]_vars

\* a cancel whose record a delete removed between its read and its write
\* has answered 200 and left a CANCELLED record without owner or created_at
OrphanAfterDelete ==
    /\ last.op = "cancel" /\ last.statusCode = 200
    /\ HasItem(store, last.job_id)
    /\ store[last.job_id].status = "CANCELLED"
    /\ store[last.job_id].user_sub = NoStr
    /\ store[last.job_id].created_at = 0


\* C31: in every state, the engine has been invoked at most once for each
\* job, however many starts the job has had.
InvokedAtMostOnce == \A j \in JobIds : invoked[j] <= 1

\* a start of a job that is already PROCESSING has answered 200 after
\* invoking the engine for the second time
InvokedTwice ==
    /\ last.op = "start" /\ last.statusCode = 200
    /\ invoked[last.job_id] = 2
    /\ HasItem(store, last.job_id)
    /\ store[last.job_id].status = "PROCESSING"

\* C32: a completion callback whose status is neither SUCCEEDED nor FAILED
\* returns in the step that starts it, acknowledged with 200, and changes no
\* record: a PROCESSING job stays PROCESSING.
OtherStatusIsAcknowledged ==
    [][\A f \in Begun :
          (/\ f.op = "callback"
           /\ f.detail.status \notin {"SUCCEEDED", "FAILED"})
          => /\ f.pc = "done"
             /\ f.statusCode = 200
             /\ store' = store]_vars

\* a TIMED_OUT event without output for a PROCESSING job is answered 500;
\* the job stays PROCESSING
TimedOutAnswers500 ==
    /\ last.op = "callback" /\ last.statusCode = 500
    /\ last.detail.status = "TIMED_OUT"
    /\ ~last.detail.output.present
    /\ HasItem(store, last.job_id)
    /\ store[last.job_id].status = "PROCESSING"

====
